---------------------------- MODULE Spec2Model ----------------------------
(***************************************************************************)
(* llm_json: the JSON repair engine of src/src/lib.rs (JsonRepairParser    *)
(* and repair_json) as a state machine.                                    *)
(*                                                                         *)
(* A text is a sequence of characters (Rust's Vec<char>).  A character is  *)
(* a one-character string for ASCII and the name "U+XXXX" of its code      *)
(* point for a non-ASCII scalar.  Cursor positions are 0-based as in the   *)
(* source: character pos of text t is t[pos + 1].                          *)
(***************************************************************************)
EXTENDS Integers, Sequences, FiniteSets, TLC

(***************************************************************************)
(* Characters                                                              *)
(***************************************************************************)

\* Absent character: Option::None of current_char / peek_char.
NoChar == ""

\* The printable ASCII characters in code point order, from U+0020 (the
\* grave accent, which a TLA+ string cannot hold, is named "U+0060").
AsciiPrintable ==
    << " ", "!", "\"", "#", "$", "%", "&", "'", "(", ")", "*", "+", ",", "-",
       ".", "/", "0", "1", "2", "3", "4", "5", "6", "7", "8", "9", ":", ";",
       "<", "=", ">", "?", "@", "A", "B", "C", "D", "E", "F", "G", "H", "I",
       "J", "K", "L", "M", "N", "O", "P", "Q", "R", "S", "T", "U", "V", "W",
       "X", "Y", "Z", "[", "\\", "]", "^", "_", "U+0060", "a", "b", "c", "d", "e",
       "f", "g", "h", "i", "j", "k", "l", "m", "n", "o", "p", "q", "r", "s",
       "t", "u", "v", "w", "x", "y", "z", "{", "|", "}", "~" >>

AsciiPrintableSet == { AsciiPrintable[i] : i \in 1..Len(AsciiPrintable) }

\* ASCII control characters the model names.
AsciiControl == { "\t", "\n", "\r", "\f", "U+0008" }

\* char::is_ascii
IsAscii(ch) == ch \in AsciiPrintableSet \cup AsciiControl

HexDigits ==
    << "0", "1", "2", "3", "4", "5", "6", "7", "8", "9",
       "a", "b", "c", "d", "e", "f" >>

UpperLetters ==
    << "A", "B", "C", "D", "E", "F", "G", "H", "I", "J", "K", "L", "M",
       "N", "O", "P", "Q", "R", "S", "T", "U", "V", "W", "X", "Y", "Z" >>

LowerLetters ==
    << "a", "b", "c", "d", "e", "f", "g", "h", "i", "j", "k", "l", "m",
       "n", "o", "p", "q", "r", "s", "t", "u", "v", "w", "x", "y", "z" >>

DigitChars == { "0", "1", "2", "3", "4", "5", "6", "7", "8", "9" }

\* The non-ASCII scalars the model names, with their code points:
\* U+00A0 no-break space, U+00E9 e-acute, U+1F60 Greek omega with psili,
\* U+7EDF a CJK ideograph, U+1F600 an emoji (astral plane).
NonAsciiCode ==
    [ c \in { "U+00A0", "U+00E9", "U+1F60", "U+7EDF", "U+1F600" } |->
        CASE c = "U+00A0"  -> 160
          [] c = "U+00E9"  -> 233
          [] c = "U+1F60"  -> 8032
          [] c = "U+7EDF"  -> 32479
          [] c = "U+1F600" -> 128512 ]

\* ch as u32
Code(ch) ==
    CASE ch \in DOMAIN NonAsciiCode -> NonAsciiCode[ch]
      [] ch = "U+0008" -> 8
      [] ch = "\t" -> 9
      [] ch = "\n" -> 10
      [] ch = "\f" -> 12
      [] ch = "\r" -> 13
      [] OTHER -> 31 + (CHOOSE i \in 1..Len(AsciiPrintable) : AsciiPrintable[i] = ch)

\* The lowercase hexadecimal digits of n, most significant first ("" for 0).
RECURSIVE HexOf(_)
HexOf(n) == IF n = 0 THEN << >> ELSE Append(HexOf(n \div 16), HexDigits[(n % 16) + 1])

\* format!("{:04x}", n): lowercase hexadecimal, zero-padded to at least 4.
RECURSIVE PadLeft4(_)
PadLeft4(s) == IF Len(s) >= 4 THEN s ELSE PadLeft4(<< "0" >> \o s)

Hex04(n) == PadLeft4(HexOf(n))

\* The character of a code point (the inverse of Code), "U+XXXX" when the
\* scalar is not ASCII.
RECURSIVE JoinChars(_)
JoinChars(s) == IF s = << >> THEN "" ELSE Head(s) \o JoinChars(Tail(s))

UpperHex(c) ==
    IF \E i \in 1..6 : LowerLetters[i] = c
    THEN UpperLetters[CHOOSE i \in 1..6 : LowerLetters[i] = c]
    ELSE c

CharOfCode(n) ==
    CASE n >= 32 /\ n <= 126 -> AsciiPrintable[n - 31]
      [] n = 8  -> "U+0008"
      [] n = 9  -> "\t"
      [] n = 10 -> "\n"
      [] n = 12 -> "\f"
      [] n = 13 -> "\r"
      [] OTHER  -> "U+" \o JoinChars([ i \in 1..Len(Hex04(n)) |-> UpperHex(Hex04(n)[i]) ])

\* char::is_whitespace (Unicode White_Space)
IsWhitespace(ch) == ch \in { " ", "\t", "\n", "\r", "\f", "U+00A0" }

\* char::is_ascii_digit
IsAsciiDigit(ch) == ch \in DigitChars

\* char::is_alphabetic (Unicode Alphabetic): the ASCII letters and the
\* non-ASCII letters; U+00A0 and U+1F600 are not alphabetic.
IsAlphabetic(ch) ==
    \/ \E i \in 1..26 : ch = UpperLetters[i] \/ ch = LowerLetters[i]
    \/ ch \in { "U+00E9", "U+1F60", "U+7EDF" }

\* char::len_utf8
Utf8Len(ch) ==
    IF IsAscii(ch) THEN 1
    ELSE IF Code(ch) < 2048 THEN 2
    ELSE IF Code(ch) < 65536 THEN 3
    ELSE 4

\* str::to_lowercase on one character (the named non-ASCII scalars have no
\* uppercase form).
ToLower(ch) ==
    IF \E i \in 1..26 : UpperLetters[i] = ch
    THEN LowerLetters[CHOOSE i \in 1..26 : UpperLetters[i] = ch]
    ELSE ch

\* Vec<char>::get(p) on a 0-based position.
CharAt(t, p) == IF p >= 0 /\ p < Len(t) THEN t[p + 1] ELSE NoChar

(***************************************************************************)
(* The cursor and the scanners of JsonRepairParser that call no other      *)
(* sub-parser.  Each takes the input, the cursor and the output buffer and *)
(* yields the cursor and the buffer it leaves: [pos |-> p, out |-> o].     *)
(***************************************************************************)

\* skip_whitespace
RECURSIVE skip_whitespace(_, _)
skip_whitespace(inp, p) ==
    IF CharAt(inp, p) # NoChar /\ IsWhitespace(CharAt(inp, p))
    THEN skip_whitespace(inp, p + 1)
    ELSE p

\* The loop of a line comment: advance() until a consumed '\n' or the end.
RECURSIVE LineCommentEnd(_, _)
LineCommentEnd(inp, p) ==
    IF CharAt(inp, p) = NoChar THEN p
    ELSE IF CharAt(inp, p) = "\n" THEN p + 1
    ELSE LineCommentEnd(inp, p + 1)

\* The loop of a block comment: advance() until a consumed '*' is followed
\* by '/', which is consumed too, or the end.
RECURSIVE BlockCommentEnd(_, _)
BlockCommentEnd(inp, p) ==
    IF CharAt(inp, p) = NoChar THEN p
    ELSE IF CharAt(inp, p) = "*" /\ CharAt(inp, p + 1) = "/" THEN p + 2
    ELSE BlockCommentEnd(inp, p + 1)

\* skip_comments: at most one comment.
skip_comments(inp, p) ==
    IF CharAt(inp, p) = "/" /\ CharAt(inp, p + 1) = "/" THEN LineCommentEnd(inp, p)
    ELSE IF CharAt(inp, p) = "/" /\ CharAt(inp, p + 1) = "*" THEN BlockCommentEnd(inp, p + 2)
    ELSE p

\* skip_whitespace(); skip_comments(); skip_whitespace();
SkipPass(inp, p) == skip_whitespace(inp, skip_comments(inp, skip_whitespace(inp, p)))

\* format!("\\u{:04x}", ch as u32)
EscapeUnicode(ch) == << "\\", "u" >> \o Hex04(Code(ch))

\* The text emitted for an ordinary character of a string: verbatim unless
\* ensure_ascii is set and the character is not ASCII.
EmitChar(ch, ensure_ascii) ==
    IF ~ensure_ascii \/ IsAscii(ch) THEN << ch >> ELSE EscapeUnicode(ch)

IsDelimiter(ch) == ch \in { ",", "}", "]", ":" }

\* The look-ahead of parse_unquoted_string on a whitespace character: from
\* temp_pos, whether a delimiter follows with only whitespace before it.
RECURSIVE FoundDelimiter(_, _)
FoundDelimiter(inp, temp_pos) ==
    IF CharAt(inp, temp_pos) = NoChar THEN FALSE
    ELSE IF IsDelimiter(CharAt(inp, temp_pos)) THEN TRUE
    ELSE IF ~IsWhitespace(CharAt(inp, temp_pos)) THEN FALSE
    ELSE FoundDelimiter(inp, temp_pos + 1)

\* parse_unquoted_string: the caller has emitted the opening quote.
RECURSIVE parse_unquoted_string(_, _, _, _)
parse_unquoted_string(inp, p, out, ensure_ascii) ==
    LET ch == CharAt(inp, p) IN
    IF ch = NoChar \/ IsDelimiter(ch) THEN [pos |-> p, out |-> Append(out, "\"")]
    ELSE IF ch = "\"" THEN
        parse_unquoted_string(inp, p + 1, out \o << "\\", "\"" >>, ensure_ascii)
    ELSE IF ch = "\\" THEN
        parse_unquoted_string(inp, p + 1, out \o << "\\", "\\" >>, ensure_ascii)
    ELSE IF IsWhitespace(ch) THEN
        IF FoundDelimiter(inp, p + 1)
        THEN [pos |-> p, out |-> Append(out, "\"")]
        ELSE parse_unquoted_string(inp, p + 1, Append(out, ch), ensure_ascii)
    ELSE parse_unquoted_string(inp, p + 1, out \o EmitChar(ch, ensure_ascii), ensure_ascii)

\* The loop of parse_string after the opening quote quote_char.
RECURSIVE QuotedBody(_, _, _, _, _)
QuotedBody(inp, p, out, quote_char, ensure_ascii) ==
    LET ch == CharAt(inp, p) IN
    IF ch = NoChar THEN [pos |-> p, out |-> Append(out, "\"")]
    ELSE IF ch = quote_char THEN [pos |-> p + 1, out |-> Append(out, "\"")]
    ELSE IF ch = "\\" THEN
        IF CharAt(inp, p + 1) # NoChar
        THEN QuotedBody(inp, p + 2, out \o << ch, CharAt(inp, p + 1) >>, quote_char, ensure_ascii)
        ELSE QuotedBody(inp, p + 1, Append(out, ch), quote_char, ensure_ascii)
    ELSE IF ch = "\"" /\ quote_char = "'" THEN
        QuotedBody(inp, p + 1, out \o << "\\", "\"" >>, quote_char, ensure_ascii)
    ELSE QuotedBody(inp, p + 1, out \o EmitChar(ch, ensure_ascii), quote_char, ensure_ascii)

\* parse_string
parse_string(inp, p, out, ensure_ascii) ==
    IF CharAt(inp, p) \in { "\"", "'" }
    THEN QuotedBody(inp, p + 1, Append(out, "\""), CharAt(inp, p), ensure_ascii)
    ELSE parse_unquoted_string(inp, p, Append(out, "\""), ensure_ascii)

\* A run of ASCII digits copied to the output.
RECURSIVE CopyDigits(_, _, _)
CopyDigits(inp, p, out) ==
    IF CharAt(inp, p) # NoChar /\ IsAsciiDigit(CharAt(inp, p))
    THEN CopyDigits(inp, p + 1, Append(out, CharAt(inp, p)))
    ELSE [pos |-> p, out |-> out]

\* String::truncate(new_len)
Truncate(out, new_len) == IF new_len < Len(out) THEN SubSeq(out, 1, new_len) ELSE out

\* parse_number, the integer part: a lone '0', or a run of digits.
IntegerPart(inp, p, out) ==
    IF CharAt(inp, p) = "0"
    THEN [pos |-> p + 1, out |-> Append(out, "0")]
    ELSE CopyDigits(inp, p, out)

\* parse_number, the decimal part: '.', digits, and '0' when none follows.
DecimalPart(inp, p, out) ==
    IF CharAt(inp, p) = "."
    THEN LET before_digits == p + 1
             d == CopyDigits(inp, before_digits, Append(out, "."))
         IN  IF d.pos = before_digits
             THEN [pos |-> d.pos, out |-> Append(d.out, "0")]
             ELSE d
    ELSE [pos |-> p, out |-> out]

\* The exponent part copied as it stands after the marker: no '0' is
\* supplied when no digit follows.
ExponentPart_unfilled(inp, p, out) ==
    IF CharAt(inp, p) \in { "e", "E" }
    THEN LET signed == CharAt(inp, p + 1) \in { "+", "-" }
             out1 == IF signed THEN out \o << "e", CharAt(inp, p + 1) >> ELSE Append(out, "e")
         IN  CopyDigits(inp, IF signed THEN p + 2 ELSE p + 1, out1)
    ELSE [pos |-> p, out |-> out]

\* parse_number, the exponent part: 'e' for 'e' or 'E', an optional sign,
\* digits, and '0' when none follows.
ExponentPart(inp, p, out) ==
    IF CharAt(inp, p) \in { "e", "E" }
    THEN LET signed == CharAt(inp, p + 1) \in { "+", "-" }
             before_exp_digits == IF signed THEN p + 2 ELSE p + 1
             out1 == IF signed THEN out \o << "e", CharAt(inp, p + 1) >> ELSE Append(out, "e")
             d == CopyDigits(inp, before_exp_digits, out1)
         IN  IF d.pos = before_exp_digits
             THEN [pos |-> d.pos, out |-> Append(d.out, "0")]
             ELSE d
    ELSE [pos |-> p, out |-> out]

\* parse_number
parse_number(inp, p, out, ensure_ascii) ==
    LET start_pos == p
        s == IF CharAt(inp, p) = "-"
             THEN [pos |-> p + 1, out |-> Append(out, "-")]
             ELSE [pos |-> p, out |-> out]
        i == IntegerPart(inp, s.pos, s.out)
        d == DecimalPart(inp, i.pos, i.out)
        e == ExponentPart(inp, d.pos, d.out)
    IN  IF e.pos = start_pos \/ (e.pos = start_pos + 1 /\ CharAt(inp, start_pos) = "-")
        THEN \* self.pos = start_pos; then truncate by (self.pos - start_pos)
             LET pos1 == start_pos
                 out1 == Truncate(e.out, Len(e.out) - (pos1 - start_pos))
             IN  parse_unquoted_string(inp, pos1, Append(out1, "\""), ensure_ascii)
        ELSE e

\* The run parse_literal collects: up to a delimiter, whitespace or the end.
RECURSIVE LiteralEnd(_, _)
LiteralEnd(inp, p) ==
    IF CharAt(inp, p) = NoChar \/ IsDelimiter(CharAt(inp, p)) \/ IsWhitespace(CharAt(inp, p))
    THEN p
    ELSE LiteralEnd(inp, p + 1)

\* parse_literal matching the run as written, not its lowercase form.
parse_literal_as_written(inp, p, out, ensure_ascii) ==
    LET start_pos == p
        end == LiteralEnd(inp, p)
        literal == [ i \in 1..(end - start_pos) |-> inp[start_pos + i] ]
    IN  IF literal = << "t", "r", "u", "e" >>
        THEN [pos |-> end, out |-> out \o << "t", "r", "u", "e" >>]
        ELSE IF literal = << "f", "a", "l", "s", "e" >>
        THEN [pos |-> end, out |-> out \o << "f", "a", "l", "s", "e" >>]
        ELSE IF literal \in { << "n", "u", "l", "l" >>, << "n", "o", "n", "e" >>,
                              << "u", "n", "d", "e", "f", "i", "n", "e", "d" >> }
        THEN [pos |-> end, out |-> out \o << "n", "u", "l", "l" >>]
        ELSE parse_unquoted_string(inp, start_pos, Append(out, "\""), ensure_ascii)

\* parse_literal
parse_literal(inp, p, out, ensure_ascii) ==
    LET start_pos == p
        end == LiteralEnd(inp, p)
        literal == [ i \in 1..(end - start_pos) |-> ToLower(inp[start_pos + i]) ]
    IN  IF literal = << "t", "r", "u", "e" >>
        THEN [pos |-> end, out |-> out \o << "t", "r", "u", "e" >>]
        ELSE IF literal = << "f", "a", "l", "s", "e" >>
        THEN [pos |-> end, out |-> out \o << "f", "a", "l", "s", "e" >>]
        ELSE IF literal \in { << "n", "u", "l", "l" >>, << "n", "o", "n", "e" >>,
                              << "u", "n", "d", "e", "f", "i", "n", "e", "d" >> }
        THEN [pos |-> end, out |-> out \o << "n", "u", "l", "l" >>]
        ELSE parse_unquoted_string(inp, start_pos, Append(out, "\""), ensure_ascii)

\* parse_value after its skip pass, on every character but '{' and '[':
\* the arms that call no container sub-parser.
ParseScalar(inp, p, out, ensure_ascii) ==
    LET ch == CharAt(inp, p) IN
    IF ch = NoChar THEN [pos |-> p, out |-> out \o << "n", "u", "l", "l" >>]
    ELSE IF ch \in { "\"", "'" } THEN parse_string(inp, p, out, ensure_ascii)
    ELSE IF IsAsciiDigit(ch) \/ ch = "-" THEN parse_number(inp, p, out, ensure_ascii)
    ELSE IF IsAlphabetic(ch) THEN parse_literal(inp, p, out, ensure_ascii)
    ELSE parse_unquoted_string(inp, p, Append(out, "\""), ensure_ascii)

(***************************************************************************)
(* The strict parser and serialiser repair_json calls:                     *)
(* serde_json::from_str::<Value> followed by serde_json::to_string.        *)
(* StrictCanon(t) is [ok |-> FALSE, ...] when t is not an RFC 8259         *)
(* document and otherwise carries the compact text serde_json writes for   *)
(* the parsed value: object keys sorted (Value's map is a BTreeMap), the   *)
(* last of duplicate keys kept, strings re-escaped, integers as written,   *)
(* floats in shortest decimal form.  The compact text determines the value *)
(* and the value the text, so two texts denote the same Value exactly when *)
(* their StrictCanon texts are equal.                                      *)
(* Outside the model: integers beyond 64 bits, floats of more than 17      *)
(* significant digits, serde_json's recursion limit of 128.                *)
(***************************************************************************)

SerdeFail == [ok |-> FALSE, pos |-> 0, txt |-> << >>]

\* serde_json's whitespace: space, \t, \n, \r only.
RECURSIVE SerdeSkipWs(_, _)
SerdeSkipWs(t, p) ==
    IF CharAt(t, p) \in { " ", "\t", "\n", "\r" } THEN SerdeSkipWs(t, p + 1) ELSE p

\* The value of a hexadecimal digit, -1 for any other character.
HexVal(ch) ==
    IF \E i \in 1..16 : HexDigits[i] = ToLower(ch)
    THEN (CHOOSE i \in 1..16 : HexDigits[i] = ToLower(ch)) - 1
    ELSE -1

\* The four hexadecimal digits at p..p+3 as a number, -1 when one is none.
Hex4At(t, p) ==
    IF \E k \in 0..3 : HexVal(CharAt(t, p + k)) < 0 THEN -1
    ELSE 4096 * HexVal(CharAt(t, p)) + 256 * HexVal(CharAt(t, p + 1))
         + 16 * HexVal(CharAt(t, p + 2)) + HexVal(CharAt(t, p + 3))

\* The body of a JSON string from p (after the opening quote): the decoded
\* characters in txt, the position after the closing quote in pos.
RECURSIVE SerdeString(_, _, _)
SerdeString(t, p, acc) ==
    LET ch == CharAt(t, p)
        e  == CharAt(t, p + 1)
    IN
    IF ch = NoChar THEN SerdeFail
    ELSE IF ch = "\"" THEN [ok |-> TRUE, pos |-> p + 1, txt |-> acc]
    ELSE IF ch = "\\" THEN
        IF e \in { "\"", "\\", "/" } THEN SerdeString(t, p + 2, Append(acc, e))
        ELSE IF e = "b" THEN SerdeString(t, p + 2, Append(acc, "U+0008"))
        ELSE IF e = "f" THEN SerdeString(t, p + 2, Append(acc, "\f"))
        ELSE IF e = "n" THEN SerdeString(t, p + 2, Append(acc, "\n"))
        ELSE IF e = "r" THEN SerdeString(t, p + 2, Append(acc, "\r"))
        ELSE IF e = "t" THEN SerdeString(t, p + 2, Append(acc, "\t"))
        ELSE IF e = "u" THEN
            LET hi == Hex4At(t, p + 2)
                lo == Hex4At(t, p + 8)
            IN  IF hi < 0 THEN SerdeFail
                ELSE IF hi >= 56320 /\ hi <= 57343 THEN SerdeFail   \* lone low surrogate
                ELSE IF hi >= 55296 /\ hi <= 56319 THEN             \* high surrogate
                    IF CharAt(t, p + 6) = "\\" /\ CharAt(t, p + 7) = "u"
                       /\ lo >= 56320 /\ lo <= 57343
                    THEN SerdeString(t, p + 12,
                             Append(acc, CharOfCode(65536 + (hi - 55296) * 1024 + (lo - 56320))))
                    ELSE SerdeFail
                ELSE SerdeString(t, p + 6, Append(acc, CharOfCode(hi)))
        ELSE SerdeFail
    ELSE IF ch \in AsciiControl THEN SerdeFail
    ELSE SerdeString(t, p + 1, Append(acc, ch))

\* serde_json's escaping of a string's characters on output: non-ASCII
\* characters are written as they are.
RECURSIVE SerdeEscape(_)
SerdeEscape(chars) ==
    IF chars = << >> THEN << >>
    ELSE LET ch == Head(chars)
             e  == CASE ch = "\""     -> << "\\", "\"" >>
                     [] ch = "\\"     -> << "\\", "\\" >>
                     [] ch = "U+0008" -> << "\\", "b" >>
                     [] ch = "\f"     -> << "\\", "f" >>
                     [] ch = "\n"     -> << "\\", "n" >>
                     [] ch = "\r"     -> << "\\", "r" >>
                     [] ch = "\t"     -> << "\\", "t" >>
                     [] OTHER         -> << ch >>
         IN  e \o SerdeEscape(Tail(chars))

SerdeQuoted(chars) == << "\"" >> \o SerdeEscape(chars) \o << "\"" >>

\* The position after the run of ASCII digits at p.
RECURSIVE DigitRunEnd(_, _)
DigitRunEnd(t, p) == IF IsAsciiDigit(CharAt(t, p)) THEN DigitRunEnd(t, p + 1) ELSE p

\* The characters of t at the 0-based positions a .. b-1.
Slice(t, a, b) == SubSeq(t, a + 1, b)

RECURSIVE StripLeadingZeros(_)
StripLeadingZeros(d) ==
    IF d # << >> /\ Head(d) = "0" THEN StripLeadingZeros(Tail(d)) ELSE d

RECURSIVE StripTrailingZeros(_)
StripTrailingZeros(d) ==
    IF d # << >> /\ d[Len(d)] = "0" THEN StripTrailingZeros(SubSeq(d, 1, Len(d) - 1)) ELSE d

DigitVal(ch) == CHOOSE v \in 0..9 : HexDigits[v + 1] = ch

\* The number a digit sequence writes (saturated: an exponent of more than
\* four digits is beyond every f64 anyway).
RECURSIVE DigitsToInt(_)
DigitsToInt(d) ==
    IF d = << >> THEN 0
    ELSE IF Len(StripLeadingZeros(d)) > 4 THEN 99999
    ELSE 10 * DigitsToInt(SubSeq(d, 1, Len(d) - 1)) + DigitVal(d[Len(d)])

RECURSIVE IntToDigits(_)
IntToDigits(n) ==
    IF n < 10 THEN << HexDigits[n + 1] >>
    ELSE Append(IntToDigits(n \div 10), HexDigits[(n % 10) + 1])

Zeros(n) == [ i \in 1..n |-> "0" ]

\* The shortest decimal form serde_json (ryu) writes for the finite float
\* 0.d1..dn * 10^kk, where d = d1..dn has neither leading nor trailing zero
\* and k = kk - n.
RyuFormat(d, k) ==
    LET length == Len(d)
        kk == length + k
        exp == IF kk - 1 < 0 THEN << "e", "-" >> \o IntToDigits(1 - kk)
               ELSE << "e" >> \o IntToDigits(kk - 1)
    IN  IF 0 <= k /\ kk <= 16 THEN d \o Zeros(k) \o << ".", "0" >>
        ELSE IF 0 < kk /\ kk <= 16 THEN SubSeq(d, 1, kk) \o << "." >> \o SubSeq(d, kk + 1, length)
        ELSE IF -5 < kk /\ kk <= 0 THEN << "0", "." >> \o Zeros(0 - kk) \o d
        ELSE IF length = 1 THEN d \o exp
        ELSE << d[1], "." >> \o SubSeq(d, 2, length) \o exp

\* The text serde_json writes for the Number of a well-formed JSON number:
\* u64 / i64 as written; f64, which "-0" is too, in shortest form.  sign is
\* "-" or nothing, intD and fracD the digits before and after the point,
\* expV the exponent; the number ends at position end.
NumberText(sign, intD, fracD, isInteger, expV, end) ==
    IF isInteger /\ Len(intD) <= 18 /\ ~(sign # << >> /\ intD = << "0" >>)
    THEN [ok |-> TRUE, pos |-> end, txt |-> sign \o intD]
    ELSE IF StripLeadingZeros(intD \o fracD) = << >>
              \/ Len(StripLeadingZeros(intD \o fracD)) + expV - Len(fracD) < -323
         THEN [ok |-> TRUE, pos |-> end, txt |-> sign \o << "0", ".", "0" >>]
    ELSE IF Len(StripLeadingZeros(intD \o fracD)) + expV - Len(fracD) > 309
         THEN SerdeFail                 \* number out of range
    ELSE [ok |-> TRUE, pos |-> end,
          txt |-> sign \o RyuFormat(StripTrailingZeros(StripLeadingZeros(intD \o fracD)),
                         expV - Len(fracD)
                         + Len(StripLeadingZeros(intD \o fracD))
                         - Len(StripTrailingZeros(StripLeadingZeros(intD \o fracD))))]

\* The exponent of a JSON number, if any, from p.
NumberExponent(t, sign, intD, fracD, hasF, p) ==
    IF CharAt(t, p) \notin { "e", "E" }
    THEN NumberText(sign, intD, fracD, ~hasF, 0, p)
    ELSE IF CharAt(t, p + 1) = "-"
    THEN IF DigitRunEnd(t, p + 2) = p + 2 THEN SerdeFail
         ELSE NumberText(sign, intD, fracD, FALSE,
                         0 - DigitsToInt(Slice(t, p + 2, DigitRunEnd(t, p + 2))),
                         DigitRunEnd(t, p + 2))
    ELSE IF CharAt(t, p + 1) = "+"
    THEN IF DigitRunEnd(t, p + 2) = p + 2 THEN SerdeFail
         ELSE NumberText(sign, intD, fracD, FALSE,
                         DigitsToInt(Slice(t, p + 2, DigitRunEnd(t, p + 2))),
                         DigitRunEnd(t, p + 2))
    ELSE IF DigitRunEnd(t, p + 1) = p + 1 THEN SerdeFail
         ELSE NumberText(sign, intD, fracD, FALSE,
                         DigitsToInt(Slice(t, p + 1, DigitRunEnd(t, p + 1))),
                         DigitRunEnd(t, p + 1))

\* The fraction of a JSON number, if any, from p.
NumberFraction(t, sign, intD, p) ==
    IF CharAt(t, p) # "."
    THEN NumberExponent(t, sign, intD, << >>, FALSE, p)
    ELSE IF DigitRunEnd(t, p + 1) = p + 1 THEN SerdeFail
    ELSE NumberExponent(t, sign, intD, Slice(t, p + 1, DigitRunEnd(t, p + 1)), TRUE,
                        DigitRunEnd(t, p + 1))

\* The integer part of a JSON number from p: "0" alone or a run of digits.
NumberInteger(t, sign, p) ==
    IF CharAt(t, p) = "0"
    THEN IF IsAsciiDigit(CharAt(t, p + 1)) THEN SerdeFail
         ELSE NumberFraction(t, sign, << "0" >>, p + 1)
    ELSE IF DigitRunEnd(t, p) = p THEN SerdeFail
    ELSE NumberFraction(t, sign, Slice(t, p, DigitRunEnd(t, p)), DigitRunEnd(t, p))

\* A JSON number at p: [ok, pos, txt].
SerdeNumber(t, p) ==
    IF CharAt(t, p) = "-"
    THEN NumberInteger(t, << "-" >>, p + 1)
    ELSE NumberInteger(t, << >>, p)

\* Rust's order on strings (by code point), strictly less.
RECURSIVE KeyLess(_, _)
KeyLess(a, b) ==
    IF b = << >> THEN FALSE
    ELSE IF a = << >> THEN TRUE
    ELSE IF Head(a) = Head(b) THEN KeyLess(Tail(a), Tail(b))
    ELSE Code(Head(a)) < Code(Head(b))

\* BTreeMap::insert on the members parsed so far, kept sorted by key: a
\* key already present takes the new value.
InsertMember(ms, key, val) ==
    IF \E i \in 1..Len(ms) : ms[i].k = key
    THEN [ i \in 1..Len(ms) |-> IF ms[i].k = key THEN [k |-> key, v |-> val] ELSE ms[i] ]
    ELSE LET n == Cardinality({ i \in 1..Len(ms) : KeyLess(ms[i].k, key) })
         IN  SubSeq(ms, 1, n) \o << [k |-> key, v |-> val] >> \o SubSeq(ms, n + 1, Len(ms))

\* The compact text of an object's members.
RECURSIVE MembersText(_)
MembersText(ms) ==
    IF ms = << >> THEN << >>
    ELSE (IF Len(ms) > 1 THEN MembersText(SubSeq(ms, 1, Len(ms) - 1)) \o << "," >> ELSE << >>)
         \o SerdeQuoted(ms[Len(ms)].k) \o << ":" >> \o ms[Len(ms)].v

\* Whether the characters of t from p on are exactly word.
StartsWith(t, p, word) == \A i \in 1..Len(word) : CharAt(t, p + i - 1) = word[i]

RECURSIVE SerdeValue(_, _)
RECURSIVE SerdeElements(_, _, _)
RECURSIVE SerdeMembers(_, _, _)

\* A parsed string r as a value: its text quoted and escaped.
StringValue(r) ==
    IF r.ok THEN [ok |-> TRUE, pos |-> r.pos, txt |-> SerdeQuoted(r.txt)] ELSE SerdeFail

\* A JSON value at q, where no whitespace is.
ValueAt(t, q, ch) ==
    IF ch = "\"" THEN StringValue(SerdeString(t, q + 1, << >>))
    ELSE IF ch = "-" \/ IsAsciiDigit(ch) THEN SerdeNumber(t, q)
    ELSE IF StartsWith(t, q, << "t", "r", "u", "e" >>)
        THEN [ok |-> TRUE, pos |-> q + 4, txt |-> << "t", "r", "u", "e" >>]
    ELSE IF StartsWith(t, q, << "f", "a", "l", "s", "e" >>)
        THEN [ok |-> TRUE, pos |-> q + 5, txt |-> << "f", "a", "l", "s", "e" >>]
    ELSE IF StartsWith(t, q, << "n", "u", "l", "l" >>)
        THEN [ok |-> TRUE, pos |-> q + 4, txt |-> << "n", "u", "l", "l" >>]
    ELSE IF ch = "[" THEN
        IF CharAt(t, SerdeSkipWs(t, q + 1)) = "]"
        THEN [ok |-> TRUE, pos |-> SerdeSkipWs(t, q + 1) + 1, txt |-> << "[", "]" >>]
        ELSE SerdeElements(t, q + 1, << "[" >>)
    ELSE IF ch = "{" THEN
        IF CharAt(t, SerdeSkipWs(t, q + 1)) = "}"
        THEN [ok |-> TRUE, pos |-> SerdeSkipWs(t, q + 1) + 1, txt |-> << "{", "}" >>]
        ELSE SerdeMembers(t, q + 1, << >>)
    ELSE SerdeFail

\* A JSON value at p, leading whitespace skipped.
SerdeValue(t, p) == ValueAt(t, SerdeSkipWs(t, p), CharAt(t, SerdeSkipWs(t, p)))

\* After the element r of an array, at q: ',' and the next element, or ']'.
AfterElement(t, r, q, acc) ==
    IF ~r.ok THEN SerdeFail
    ELSE IF CharAt(t, q) = "," THEN SerdeElements(t, q + 1, acc \o r.txt \o << "," >>)
    ELSE IF CharAt(t, q) = "]" THEN [ok |-> TRUE, pos |-> q + 1, txt |-> acc \o r.txt \o << "]" >>]
    ELSE SerdeFail

ThenSkipWs(t, r) == IF r.ok THEN SerdeSkipWs(t, r.pos) ELSE 0

ElementParsed(t, r, acc) == AfterElement(t, r, ThenSkipWs(t, r), acc)

\* The elements of an array from p, where one must start; acc is the text
\* written so far.
SerdeElements(t, p, acc) == ElementParsed(t, SerdeValue(t, p), acc)

\* After a member of an object, at e: ',' and the next member, or '}'; ms
\* are the members parsed so far, this one included.
AfterMember(t, e, ms) ==
    IF CharAt(t, e) = "," THEN SerdeMembers(t, e + 1, ms)
    ELSE IF CharAt(t, e) = "}"
        THEN [ok |-> TRUE, pos |-> e + 1, txt |-> << "{" >> \o MembersText(ms) \o << "}" >>]
    ELSE SerdeFail

MemberParsed(t, key, vr, ms) ==
    IF ~vr.ok THEN SerdeFail
    ELSE AfterMember(t, SerdeSkipWs(t, vr.pos), InsertMember(ms, key, vr.txt))

\* The key kr of a member is parsed; c is the position of the colon.
KeyParsed(t, kr, c, ms) ==
    IF ~kr.ok THEN SerdeFail
    ELSE IF CharAt(t, c) # ":" THEN SerdeFail
    ELSE MemberParsed(t, kr.txt, SerdeValue(t, c + 1), ms)

KeyThenColon(t, kr, ms) == KeyParsed(t, kr, ThenSkipWs(t, kr), ms)

MemberAt(t, q, ms) ==
    IF CharAt(t, q) # "\"" THEN SerdeFail
    ELSE KeyThenColon(t, SerdeString(t, q + 1, << >>), ms)

\* The members of an object from p, where a key must start; ms are the
\* members parsed so far.
SerdeMembers(t, p, ms) == MemberAt(t, SerdeSkipWs(t, p), ms)

\* The document: the value r with nothing but whitespace after it.
Document(t, r) ==
    IF r.ok /\ SerdeSkipWs(t, r.pos) = Len(t)
    THEN [ok |-> TRUE, txt |-> r.txt]
    ELSE [ok |-> FALSE, txt |-> << >>]

\* serde_json::from_str::<Value>(t) and, when it succeeds, the text of
\* serde_json::to_string of the value.
StrictCanon(t) == Document(t, SerdeValue(t, 0))

(***************************************************************************)
(* The preamble of JsonRepairParser::parse                                 *)
(***************************************************************************)

\* str::find(word): the first position where word occurs, -1 for None.
Find(t, word) ==
    IF \E i \in 0..Len(t) : StartsWith(t, i, word)
    THEN CHOOSE i \in 0..Len(t) : StartsWith(t, i, word) /\ \A j \in 0..(i - 1) : ~StartsWith(t, j, word)
    ELSE -1

\* str::rfind(word): the last position where word occurs, -1 for None.
RFind(t, word) ==
    IF \E i \in 0..Len(t) : StartsWith(t, i, word)
    THEN CHOOSE i \in 0..Len(t) : StartsWith(t, i, word) /\ \A j \in (i + 1)..Len(t) : ~StartsWith(t, j, word)
    ELSE -1

FenceOpen  == << "U+0060", "U+0060", "U+0060", "j", "s", "o", "n" >>
FenceClose == << "U+0060", "U+0060", "U+0060" >>

\* The input parse() works on: the text between the fences when the input
\* holds "```json" and its last "```" lies beyond it.  find and rfind give
\* byte offsets of the same String, and the seven characters of the opening
\* fence are one byte each, so end > start + 7 and the slice are the same
\* on character positions.
StripFence(inp) ==
    LET start == Find(inp, FenceOpen)
        end   == RFind(inp, FenceClose)
    IN  IF start >= 0 /\ end >= 0 /\ end > start + 7
        THEN Slice(inp, start + 7, end)
        ELSE inp

\* The characters that stop the scan for a JSON start marker.
IsStartMarker(ch) ==
    ch \in { "{", "[", "\"", "'", "-" } \/ IsAsciiDigit(ch) \/ IsAlphabetic(ch)

RECURSIVE SkipToMarker(_, _)
SkipToMarker(inp, p) ==
    IF CharAt(inp, p) = NoChar \/ IsStartMarker(CharAt(inp, p)) THEN p
    ELSE SkipToMarker(inp, p + 1)

\* The cursor after the leading-character skip: skip_whitespace, then the
\* marker scan.
LeadingSkip(inp) == SkipToMarker(inp, skip_whitespace(inp, 0))

\* The UTF-8 length of the first n characters of t: the byte offset of
\* character position n in the String collected from t.
RECURSIVE ByteOffset(_, _)
ByteOffset(t, n) == IF n = 0 THEN 0 ELSE ByteOffset(t, n - 1) + Utf8Len(t[n])

\* remaining.find('{').or_else(|| remaining.find('[')): a byte offset into
\* remaining, -1 for None.
JsonStart(remaining) ==
    IF Find(remaining, << "{" >>) >= 0 THEN ByteOffset(remaining, Find(remaining, << "{" >>))
    ELSE IF Find(remaining, << "[" >>) >= 0 THEN ByteOffset(remaining, Find(remaining, << "[" >>))
    ELSE -1

\* The cursor parse() hands to parse_value: self.pos += json_start.
PreambleSkip(inp) ==
    LET p == LeadingSkip(inp)
        json_start == JsonStart(Slice(inp, p, Len(inp)))
    IN  IF json_start >= 0 THEN p + json_start ELSE p

(***************************************************************************)
(* State                                                                   *)
(***************************************************************************)
VARIABLES
    json_str,     \* repair_json's argument
    options,      \* RepairOptions: the two fields lib.rs reads
    pc,           \* where repair_json stands
    input,        \* JsonRepairParser.input
    pos,          \* JsonRepairParser.pos
    output,       \* JsonRepairParser.output
    state_stack,  \* JsonRepairParser.state_stack
    frames,       \* the call stack of parse / parse_value / parse_object / parse_array
    stalls,       \* loop iterations that ended with the cursor where they began
    result,       \* repair_json's return value
    round,        \* 1: the caller's text; 2: repair_json applied to its own result
    first,        \* the text round 1 returned
    context,      \* JsonContext.context
    current,      \* JsonContext.current
    empty         \* JsonContext.empty

vars == << json_str, options, pc, input, pos, output, state_stack, frames,
           stalls, result, round, first, context, current, empty >>

parser == << input, pos, output, state_stack, frames, stalls >>

\* The fields of a JsonContext (src/src/context.rs); lib.rs does not use it.
json_context == << context, current, empty >>

\* enum ContextValues
ContextValues == { "ObjectKey", "ObjectValue", "Array" }

\* Option::None of JsonContext.current; Some(value) is the value itself.
None == "None"

\* JsonContext::new()
JsonContext_new ==
    /\ context = << >>
    /\ current = None
    /\ empty = TRUE

\* Longest text drawn exhaustively from Alphabet.
MaxLen == 3

\* Loop iterations without progress the model follows before it leaves a
\* run that no longer advances.
MaxStall == 2

Alphabet ==
    { "{", "}", "[", "]", ",", ":", "\"", "\\", "-", "1", "a", " ", "U+00E9", "U+1F600" }

BoundedInputs == UNION { [ 1..n -> Alphabet ] : n \in 0..MaxLen }

NoResult == [set |-> FALSE, ok |-> FALSE, text |-> << >>]
Ok(text) == [set |-> TRUE, ok |-> TRUE, text |-> text]
Err      == [set |-> TRUE, ok |-> FALSE, text |-> << >>]

\* A frame of the call stack: the function, where it stands, parse_object's
\* and parse_array's locals, and the cursor at the head of the loop's
\* previous iteration (-1 before the first).
Frame(fn, at) ==
    [fn |-> fn, at |-> at, expecting_key |-> TRUE, needs_comma |-> FALSE, last_pos |-> -1]

Top == frames[Len(frames)]
Pop(fs) == SubSeq(fs, 1, Len(fs) - 1)
SetTop(fs, f) == [fs EXCEPT ![Len(fs)] = f]

\* push_state / pop_state
push_state(st, state) == Append(st, state)
pop_state(st) == IF Len(st) > 1 THEN SubSeq(st, 1, Len(st) - 1) ELSE st

\* Texts of the test suite and of the specification's scenarios, beyond the
\* reach of MaxLen.
SampleInputs == {
    \* {"a":1 "b":2}   (spec.md, scenario 7)
    << "{", "\"", "a", "\"", ":", "1", " ", "\"", "b", "\"", ":", "2", "}" >>,
    \* {"name": 'John' "age": 30}   (lib.rs:909)
    << "{", "\"", "n", "a", "m", "e", "\"", ":", " ", "'", "J", "o", "h", "n",
       "'", " ", "\"", "a", "g", "e", "\"", ":", " ", "3", "0", "}" >>,
    \* ["a", "b", "c"   (lib.rs:756)
    << "[", "\"", "a", "\"", ",", " ", "\"", "b", "\"", ",", " ", "\"", "c",
       "\"" >>,
    \* {"name": "John", "age": 30   (lib.rs:752)
    << "{", "\"", "n", "a", "m", "e", "\"", ":", " ", "\"", "J", "o", "h",
       "n", "\"", ",", " ", "\"", "a", "g", "e", "\"", ":", " ", "3", "0" >>,
    \* [1, 2, 3,]   (lib.rs:793)
    << "[", "1", ",", " ", "2", ",", " ", "3", ",", "]" >>,
    \* [1,,]   (a run of commas in an array)
    << "[", "1", ",", ",", "]" >>,
    \* {"a":1,,}   (a run of commas in an object)
    << "{", "\"", "a", "\"", ":", "1", ",", ",", "}" >>,
    \* Here's the JSON: {"name": "John", "age": 30}   (lib.rs:905)
    << "H", "e", "r", "e", "'", "s", " ", "t", "h", "e", " ", "J", "S", "O",
       "N", ":", " ", "{", "\"", "n", "a", "m", "e", "\"", ":", " ", "\"",
       "J", "o", "h", "n", "\"", ",", " ", "\"", "a", "g", "e", "\"", ":",
       " ", "3", "0", "}" >>,
    \* {name: "John", age: 30}   (lib.rs:735)
    << "{", "n", "a", "m", "e", ":", " ", "\"", "J", "o", "h", "n", "\"", ",",
       " ", "a", "g", "e", ":", " ", "3", "0", "}" >>,
    \* <3 grave accents>json\n{"x":1}\n<3 grave accents>   (spec.md, scenario 4)
    << "U+0060", "U+0060", "U+0060", "j", "s", "o", "n", "\n", "{", "\"", "x",
       "\"", ":", "1", "}", "\n", "U+0060", "U+0060", "U+0060" >>,
    \* [{"a":1}]   (an array of one object)
    << "[", "{", "\"", "a", "\"", ":", "1", "}", "]" >>,
    \* {"a":[1,{"b":"<U+1F600>"   (nested containers, none closed)
    << "{", "\"", "a", "\"", ":", "[", "1", ",", "{", "\"", "b", "\"", ":",
       "\"", "U+1F600", "\"" >>,
    \* x<fence>json[1]<fence>y   (text before and after the fences)
    << "x", "U+0060", "U+0060", "U+0060", "j", "s", "o", "n", "[", "1", "]",
       "U+0060", "U+0060", "U+0060", "y" >>,
    \* <fence>json<fence>   (nothing between the fences)
    << "U+0060", "U+0060", "U+0060", "j", "s", "o", "n", "U+0060", "U+0060",
       "U+0060" >>,
    \* {"name": "John", /* comment */ "age": 30}   (lib.rs:857)
    << "{", "\"", "n", "a", "m", "e", "\"", ":", " ", "\"", "J", "o", "h",
       "n", "\"", ",", " ", "/", "*", " ", "c", "o", "m", "m", "e", "n",
       "t", " ", "*", "/", " ", "\"", "a", "g", "e", "\"", ":", " ", "3",
       "0", "}" >>,
    \* [1, // c<newline>2]   (a line comment)
    << "[", "1", ",", " ", "/", "/", " ", "c", "\n", "2", "]" >>,
    \* [/**//**/]   (two comments in a row)
    << "[", "/", "*", "*", "/", "/", "*", "*", "/", "]" >>,
    \* /*a*/1   (a comment before the value)
    << "/", "*", "a", "*", "/", "1" >>,
    \* [True, FALSE, None, undefined, nul, NULL]   (literals in any case, and a near miss)
    << "[", "T", "r", "u", "e", ",", " ", "F", "A", "L", "S", "E", ",", " ",
       "N", "o", "n", "e", ",", " ", "u", "n", "d", "e", "f", "i", "n", "e",
       "d", ",", " ", "n", "u", "l", ",", " ", "N", "U", "L", "L", "]" >>,
    \* {"value": None}   (lib.rs:776)
    << "{", "\"", "v", "a", "l", "u", "e", "\"", ":", " ", "N", "o", "n",
       "e", "}" >>,
    \* {"n": 1.}   (a decimal point with no digit after it)
    << "{", "\"", "n", "\"", ":", " ", "1", ".", "}" >>,
    \* {"n": 1e}   (an exponent marker with no digit after it)
    << "{", "\"", "n", "\"", ":", " ", "1", "e", "}" >>,
    \* [1.e5, 2E+, 3.5E-, 0., -.]   (numbers cut short after the point, the marker or its sign)
    << "[", "1", ".", "e", "5", ",", " ", "2", "E", "+", ",", " ", "3", ".",
       "5", "E", "-", ",", " ", "0", ".", ",", " ", "-", ".", "]" >>,
    \* space, newline, tab, carriage return, space   (whitespace only, lib.rs:868)
    << " ", "\n", "\t", "\r", " " >>,
    \* a no-break space (trim() strips Unicode White_Space)
    << "U+00A0" >> }

Inputs == BoundedInputs \cup SampleInputs

OptionSettings == [skip_json_loads : BOOLEAN, ensure_ascii : BOOLEAN]

(***************************************************************************)
(* repair_json up to JsonRepairParser::new                                 *)
(***************************************************************************)
Init ==
    /\ json_str \in Inputs
    /\ options \in OptionSettings
    /\ pc = "start"
    /\ input = << >>
    /\ pos = 0
    /\ output = << >>
    /\ state_stack = << >>
    /\ frames = << >>
    /\ stalls = 0
    /\ result = NoResult
    /\ round = 1
    /\ first = << >>
    /\ JsonContext_new

\* is_empty() without the trim().
IsBlank_untrimmed(t) == t = << >>

\* json_str.trim().is_empty()
IsBlank(t) == \A i \in 1..Len(t) : IsWhitespace(t[i])

\* The fast path is taken: skip_json_loads is unset and the strict parse
\* of the text succeeds.
FastPathTaken(t, opts) == ~opts.skip_json_loads /\ StrictCanon(t).ok

\* Blank text: Ok("{}").
ReturnEmptyObject ==
    /\ pc = "start"
    /\ IsBlank(json_str)
    /\ result' = Ok(<< "{", "}" >>)
    /\ pc' = "done"
    /\ UNCHANGED << json_context, json_str, options, parser, round, first >>

\* The fast path: the text parses as it is, and its compact serialisation
\* is returned.
ReturnFastPath ==
    /\ pc = "start"
    /\ ~IsBlank(json_str)
    /\ ~options.skip_json_loads
    /\ \E value \in { StrictCanon(json_str) } :
          /\ value.ok
          /\ result' = Ok(value.txt)
    /\ pc' = "done"
    /\ UNCHANGED << json_context, json_str, options, parser, round, first >>

\* JsonRepairParser::new(json_str, options.clone())
NewParser ==
    /\ pc = "start"
    /\ ~IsBlank(json_str)
    /\ ~FastPathTaken(json_str, options)
    /\ input' = json_str
    /\ pos' = 0
    /\ output' = << >>
    /\ state_stack' = << "Root" >>
    /\ frames' = << >>
    /\ stalls' = 0
    /\ pc' = "engine"
    /\ UNCHANGED << json_context, json_str, options, result, round, first >>

(***************************************************************************)
(* JsonRepairParser::parse and parse_value                                 *)
(***************************************************************************)

\* parse() up to its call of parse_value: the fence, the leading skip and
\* the jump to the JSON start.
Preamble ==
    /\ pc = "engine"
    /\ input' = StripFence(input)
    /\ pos' = PreambleSkip(StripFence(input))
    /\ frames' = << Frame("parse", "after_value"), Frame("parse_value", "entry") >>
    /\ pc' = "running"
    /\ UNCHANGED << json_context, json_str, options, output, state_stack, stalls, result, round, first >>

InValue == pc = "running" /\ Top.fn = "parse_value"

\* parse_value on every character but '{' and '[': the value is emitted
\* and the call returns.
ParseValue ==
    /\ InValue
    /\ CharAt(input, SkipPass(input, pos)) \notin { "{", "[" }
    /\ LET r == ParseScalar(input, SkipPass(input, pos), output, options.ensure_ascii)
       IN  /\ pos' = r.pos
           /\ output' = r.out
    /\ frames' = Pop(frames)
    /\ UNCHANGED << json_context, json_str, options, pc, input, state_stack, stalls, result, round, first >>

\* parse_value on '{': parse_object up to its loop.
EnterObject ==
    /\ InValue
    /\ CharAt(input, SkipPass(input, pos)) = "{"
    /\ output' = Append(output, "{")
    /\ pos' = SkipPass(input, pos) + 1
    /\ state_stack' = push_state(state_stack, "Object")
    /\ frames' = SetTop(frames, Frame("parse_object", "loop"))
    /\ UNCHANGED << json_context, json_str, options, pc, input, stalls, result, round, first >>

\* parse_value on '[': parse_array up to its loop.
EnterArray ==
    /\ InValue
    /\ CharAt(input, SkipPass(input, pos)) = "["
    /\ output' = Append(output, "[")
    /\ pos' = SkipPass(input, pos) + 1
    /\ state_stack' = push_state(state_stack, "Array")
    /\ frames' = SetTop(frames, Frame("parse_array", "loop"))
    /\ UNCHANGED << json_context, json_str, options, pc, input, stalls, result, round, first >>

\* parse() after parse_value: the trailing skip_whitespace, then Ok(()).
ParseReturn ==
    /\ pc = "running"
    /\ Top.fn = "parse"
    /\ pos' = skip_whitespace(input, pos)
    /\ frames' = << >>
    /\ pc' = "parsed"
    /\ UNCHANGED << json_context, json_str, options, input, output, state_stack, stalls, result, round, first >>

(***************************************************************************)
(* The loops of parse_object and parse_array.  One action is one arm of    *)
(* the loop's match, from the head of the loop to the next head, to the    *)
(* return, or to the call of parse_value.                                  *)
(***************************************************************************)

AtLoop(fn) == pc = "running" /\ Top.fn = fn /\ Top.at = "loop"

\* The head of an iteration finds the cursor where the previous iteration
\* of the same loop found it.
Stalled == Top.last_pos = pos

\* The model follows a run through MaxStall such iterations.
Followed == Stalled => stalls < MaxStall

CountStall == stalls' = IF Stalled THEN stalls + 1 ELSE stalls

\* The character the loop's match looks at.
LoopChar == CharAt(input, SkipPass(input, pos))

\* The frame at the next head of the loop.
NextIteration(f) == [f EXCEPT !.at = "loop", !.last_pos = pos]

\* None: the incomplete object is closed; Some('}'): the object is closed.
ObjectClose ==
    /\ AtLoop("parse_object") /\ Followed
    /\ LoopChar \in { NoChar, "}" }
    /\ pos' = IF LoopChar = "}" THEN SkipPass(input, pos) + 1 ELSE SkipPass(input, pos)
    /\ output' = Append(output, "}")
    /\ state_stack' = pop_state(state_stack)
    /\ frames' = Pop(frames)
    /\ CountStall
    /\ UNCHANGED << json_context, json_str, options, pc, input, result, round, first >>

\* Some(','): a trailing comma is dropped; otherwise the comma is emitted
\* when a member came before it.
ObjectComma ==
    /\ AtLoop("parse_object") /\ Followed
    /\ LoopChar = ","
    /\ LET p == skip_whitespace(input, SkipPass(input, pos) + 1)
           trailing == CharAt(input, p) \in { "}", NoChar }
           emit == ~trailing /\ ~Top.expecting_key
       IN  /\ pos' = p
           /\ output' = IF emit THEN Append(output, ",") ELSE output
           /\ frames' = SetTop(frames,
                  IF emit
                  THEN [NextIteration(Top) EXCEPT !.expecting_key = TRUE, !.needs_comma = FALSE]
                  ELSE NextIteration(Top))
    /\ CountStall
    /\ UNCHANGED << json_context, json_str, options, pc, input, state_stack, result, round, first >>

\* The key and the colon of a member.
KeyAndColon(inp, p, out, ensure_ascii) ==
    LET k == IF CharAt(inp, p) \in { "\"", "'" }
             THEN parse_string(inp, p, out, ensure_ascii)
             ELSE parse_unquoted_string(inp, p, Append(out, "\""), ensure_ascii)
        c == skip_whitespace(inp, k.pos)
    IN  [pos |-> IF CharAt(inp, c) = ":" THEN c + 1 ELSE c, out |-> Append(k.out, ":")]

\* Any other character while a key is expected: the separating comma when
\* needs_comma, the key, the colon, and the call of parse_value.
ObjectMember ==
    /\ AtLoop("parse_object") /\ Followed
    /\ LoopChar \notin { NoChar, "}", "," }
    /\ Top.expecting_key
    /\ LET r == KeyAndColon(input, SkipPass(input, pos),
                    IF Top.needs_comma THEN Append(output, ",") ELSE output,
                    options.ensure_ascii)
       IN  /\ pos' = r.pos
           /\ output' = r.out
    /\ frames' = Append(SetTop(frames, [NextIteration(Top) EXCEPT !.at = "after_value"]),
                        Frame("parse_value", "entry"))
    /\ CountStall
    /\ UNCHANGED << json_context, json_str, options, pc, input, state_stack, result, round, first >>

\* After a member's value: a comma is emitted when a quote or a letter
\* follows; the iteration ends.
ObjectAfterValue ==
    /\ pc = "running" /\ Top.fn = "parse_object" /\ Top.at = "after_value"
    /\ LET p == skip_whitespace(input, pos)
           ch == CharAt(input, p)
       IN  /\ pos' = p
           /\ output' = IF ch \in { "\"", "'" } \/ (ch # NoChar /\ IsAlphabetic(ch))
                        THEN Append(output, ",")
                        ELSE output
    /\ frames' = SetTop(frames, [Top EXCEPT !.at = "loop", !.expecting_key = FALSE, !.needs_comma = TRUE])
    /\ UNCHANGED << json_context, json_str, options, pc, input, state_stack, stalls, result, round, first >>

\* Any other character while no key is expected: the separating comma when
\* needs_comma, the default key, and the call of parse_value.
ObjectDefaultKey ==
    /\ AtLoop("parse_object") /\ Followed
    /\ LoopChar \notin { NoChar, "}", "," }
    /\ ~Top.expecting_key
    /\ pos' = SkipPass(input, pos)
    /\ output' = (IF Top.needs_comma THEN Append(output, ",") ELSE output)
                 \o << "\"", "u", "n", "k", "n", "o", "w", "n", "\"", ":" >>
    /\ frames' = Append(SetTop(frames, [NextIteration(Top) EXCEPT !.at = "after_default"]),
                        Frame("parse_value", "entry"))
    /\ CountStall
    /\ UNCHANGED << json_context, json_str, options, pc, input, state_stack, result, round, first >>

\* After the value of a default key: the iteration ends.
ObjectAfterDefault ==
    /\ pc = "running" /\ Top.fn = "parse_object" /\ Top.at = "after_default"
    /\ frames' = SetTop(frames, [Top EXCEPT !.at = "loop", !.expecting_key = FALSE, !.needs_comma = TRUE])
    /\ UNCHANGED << json_context, json_str, options, pc, input, pos, output, state_stack, stalls, result, round, first >>

\* None: the incomplete array is closed; Some(']'): the array is closed.
ArrayClose ==
    /\ AtLoop("parse_array") /\ Followed
    /\ LoopChar \in { NoChar, "]" }
    /\ pos' = IF LoopChar = "]" THEN SkipPass(input, pos) + 1 ELSE SkipPass(input, pos)
    /\ output' = Append(output, "]")
    /\ state_stack' = pop_state(state_stack)
    /\ frames' = Pop(frames)
    /\ CountStall
    /\ UNCHANGED << json_context, json_str, options, pc, input, result, round, first >>

\* Some(','): a trailing comma is dropped; otherwise the comma is emitted
\* when an element came before it.
ArrayComma ==
    /\ AtLoop("parse_array") /\ Followed
    /\ LoopChar = ","
    /\ LET p == skip_whitespace(input, SkipPass(input, pos) + 1)
           trailing == CharAt(input, p) \in { "]", NoChar }
           emit == ~trailing /\ Top.needs_comma
       IN  /\ pos' = p
           /\ output' = IF emit THEN Append(output, ",") ELSE output
           /\ frames' = SetTop(frames,
                  IF emit
                  THEN [NextIteration(Top) EXCEPT !.needs_comma = FALSE]
                  ELSE NextIteration(Top))
    /\ CountStall
    /\ UNCHANGED << json_context, json_str, options, pc, input, state_stack, result, round, first >>

\* Any other character: the separating comma when needs_comma, and the
\* call of parse_value.
ArrayElement ==
    /\ AtLoop("parse_array") /\ Followed
    /\ LoopChar \notin { NoChar, "]", "," }
    /\ pos' = SkipPass(input, pos)
    /\ output' = IF Top.needs_comma THEN Append(output, ",") ELSE output
    /\ frames' = Append(SetTop(frames, [NextIteration(Top) EXCEPT !.at = "after_value"]),
                        Frame("parse_value", "entry"))
    /\ CountStall
    /\ UNCHANGED << json_context, json_str, options, pc, input, state_stack, result, round, first >>

\* After an element: the iteration ends.
ArrayAfterValue ==
    /\ pc = "running" /\ Top.fn = "parse_array" /\ Top.at = "after_value"
    /\ frames' = SetTop(frames, [Top EXCEPT !.at = "loop", !.needs_comma = TRUE])
    /\ UNCHANGED << json_context, json_str, options, pc, input, pos, output, state_stack, stalls, result, round, first >>

(***************************************************************************)
(* repair_json after parser.parse()                                        *)
(***************************************************************************)

\* skip_json_loads: the engine's text is returned as it is.
ReturnUnvalidated ==
    /\ pc = "parsed"
    /\ options.skip_json_loads
    /\ result' = Ok(output)
    /\ pc' = "done"
    /\ UNCHANGED << json_context, json_str, options, parser, round, first >>

\* The engine's text parses: its compact serialisation is returned.
ReturnValidated ==
    /\ pc = "parsed"
    /\ ~options.skip_json_loads
    /\ \E parsed \in { StrictCanon(output) } :
          /\ parsed.ok
          /\ result' = Ok(parsed.txt)
    /\ pc' = "done"
    /\ UNCHANGED << json_context, json_str, options, parser, round, first >>

\* The engine's text does not parse: Err(SerdeError).
ReturnSerdeError ==
    /\ pc = "parsed"
    /\ ~options.skip_json_loads
    /\ ~StrictCanon(output).ok
    /\ result' = Err
    /\ pc' = "done"
    /\ UNCHANGED << json_context, json_str, options, parser, round, first >>

\* The caller applies repair_json, with the same options, to the text a
\* first call returned.
Reapply ==
    /\ pc = "done"
    /\ round = 1
    /\ result.ok
    /\ json_str' = result.text
    /\ first' = result.text
    /\ round' = 2
    /\ pc' = "start"
    /\ result' = NoResult
    /\ input' = << >>
    /\ pos' = 0
    /\ output' = << >>
    /\ state_stack' = << >>
    /\ frames' = << >>
    /\ stalls' = 0
    /\ UNCHANGED << json_context, options >>

Next ==
    \/ ReturnEmptyObject \/ ReturnFastPath \/ NewParser
    \/ Preamble \/ ParseValue \/ EnterObject \/ EnterArray \/ ParseReturn
    \/ ObjectClose \/ ObjectComma \/ ObjectMember \/ ObjectAfterValue
    \/ ObjectDefaultKey \/ ObjectAfterDefault
    \/ ArrayClose \/ ArrayComma \/ ArrayElement \/ ArrayAfterValue
    \/ ReturnUnvalidated \/ ReturnValidated \/ ReturnSerdeError
    \/ Reapply

Spec == Init /\ [][Next]_vars


(***************************************************************************)
(* JsonContext (src/src/context.rs): a stack of roles with two cached      *)
(* fields.  Its methods are called in any order from new(); no call of     *)
(* repair_json is in progress.                                             *)
(***************************************************************************)

\* Longest context stack the model builds.
MaxContext == 4

\* JsonContext::set(value)
JsonContext_set(value) ==
    /\ Len(context) < MaxContext
    /\ context' = Append(context, value)
    /\ current' = value
    /\ empty' = FALSE
    /\ UNCHANGED << json_str, options, pc, parser, result, round, first >>

\* JsonContext::reset(): Vec::pop, and the two fields from what it returned.
JsonContext_reset ==
    /\ IF context # << >>
       THEN /\ context' = SubSeq(context, 1, Len(context) - 1)
            /\ current' = context[Len(context)]
            /\ empty' = FALSE
       ELSE /\ context' = context
            /\ current' = None
            /\ empty' = TRUE
    /\ UNCHANGED << json_str, options, pc, parser, result, round, first >>

ContextInit ==
    /\ JsonContext_new
    /\ json_str = << >>
    /\ options = [skip_json_loads |-> FALSE, ensure_ascii |-> FALSE]
    /\ pc = "idle"
    /\ input = << >>
    /\ pos = 0
    /\ output = << >>
    /\ state_stack = << >>
    /\ frames = << >>
    /\ stalls = 0
    /\ result = NoResult
    /\ round = 1
    /\ first = << >>

ContextNext ==
    \/ \E value \in ContextValues : JsonContext_set(value)
    \/ JsonContext_reset

ContextSpec == ContextInit /\ [][ContextNext]_vars


(***************************************************************************)
(* Properties                                                              *)
(***************************************************************************)

\* repair_json has returned from its first application.
Returned == pc = "done" /\ round = 1

\* C1: whenever repair_json returns Ok(s), under any option setting, s is a
\* complete, strictly valid JSON document: the strict parse of s succeeds.
C1_OkIsStrictJson ==
    (pc = "done" /\ result.ok) => StrictCanon(result.text).ok

\* C2: the engine terminates: every iteration of the loops of parse_object
\* and parse_array advances the cursor or leaves the loop, so the head of
\* an iteration finds the cursor past the place where the head of the
\* previous iteration of the same loop found it.
C2_IterationAdvancesOrLeaves ==
    (pc = "running" /\ Top.at = "loop") => Top.last_pos < pos

\* C3: repair_json is idempotent over successful repairs, under every
\* option setting: applied to its own Ok(s), it returns Ok(s).
C3_Idempotent ==
    (pc = "done" /\ round = 2) => result = Ok(first)


\* C4: text that is already strictly valid JSON keeps its value under every
\* option setting: the strict parse of the returned text yields the value
\* the strict parse of the text yields.
C4_ValidKeepsValue ==
    (Returned /\ ~IsBlank(json_str) /\ StrictCanon(json_str).ok)
        => /\ result.ok
           /\ StrictCanon(result.text) = StrictCanon(json_str)

\* The head of an iteration of parse_object's loop right after the comma
\* of a missing separator was emitted: the output ends with ',' and the
\* cursor is on a quote or on a letter.
AfterSuppliedComma ==
    /\ AtLoop("parse_object")
    /\ Len(output) > 0
    /\ output[Len(output)] = ","
    /\ LoopChar # NoChar
    /\ (LoopChar \in { "\"", "'" } \/ IsAlphabetic(LoopChar))

\* C5: a member's value followed by a quote or a letter instead of a comma
\* gets exactly one ',', and what follows is parsed as the next member's
\* key with its own value: after that comma the loop expects a key and
\* owes no further comma.
C5_MissingCommaOnce ==
    AfterSuppliedComma => (Top.expecting_key /\ ~Top.needs_comma)

\* The places of txt up to i that lie outside its string literals.
RECURSIVE OutsideStrings(_, _, _, _)
OutsideStrings(txt, i, inside, acc) ==
    IF i > Len(txt) THEN acc
    ELSE IF inside
         THEN IF txt[i] = "\\" THEN OutsideStrings(txt, i + 2, TRUE, acc)
              ELSE OutsideStrings(txt, i + 1, txt[i] # "\"", acc)
         ELSE IF txt[i] = "\"" THEN OutsideStrings(txt, i + 1, TRUE, acc)
              ELSE OutsideStrings(txt, i + 1, FALSE, acc \cup { i })

\* The structural commas of txt that a closer or another comma follows.
DanglingCommas(txt) ==
    { i \in OutsideStrings(txt, 1, FALSE, {}) :
        /\ txt[i] = ","
        /\ i < Len(txt)
        /\ txt[i + 1] \in { "}", "]", "," } }

\* C6: trailing and repeated commas never reach the output: no structural
\* ',' of the emitted text is immediately followed by '}', ']' or ','.
C6_NoDanglingComma ==
    DanglingCommas(output) = {}


\* The closers of the containers of txt still open at its end, innermost
\* first; brackets inside string literals open nothing.
RECURSIVE MissingClosers(_, _, _, _)
MissingClosers(txt, i, inside, closers) ==
    IF i > Len(txt) THEN closers
    ELSE IF inside
         THEN IF txt[i] = "\\" THEN MissingClosers(txt, i + 2, TRUE, closers)
              ELSE MissingClosers(txt, i + 1, txt[i] # "\"", closers)
         ELSE IF txt[i] = "\"" THEN MissingClosers(txt, i + 1, TRUE, closers)
         ELSE IF txt[i] = "{" THEN MissingClosers(txt, i + 1, FALSE, << "}" >> \o closers)
         ELSE IF txt[i] = "[" THEN MissingClosers(txt, i + 1, FALSE, << "]" >> \o closers)
         ELSE IF txt[i] \in { "}", "]" } /\ closers # << >>
              THEN MissingClosers(txt, i + 1, FALSE, Tail(closers))
         ELSE MissingClosers(txt, i + 1, FALSE, closers)

\* txt ends while containers opened in it are still open, and nothing but
\* their closers is missing: txt with the closers is strictly valid.
EndsUnclosed(txt, closers) ==
    /\ Len(closers) >= 1
    /\ StrictCanon(txt \o closers).ok

\* The returned text is the text with exactly its missing closers.
AutoClosed(txt, closers, res) ==
    /\ res.ok
    /\ StrictCanon(res.text) = StrictCanon(txt \o closers)

\* C7: text that ends while n >= 1 containers opened in it are still open
\* is returned with all of those containers and exactly the n missing
\* closers, innermost first.
C7_AutoClose ==
    (Returned /\ EndsUnclosed(json_str, MissingClosers(json_str, 1, FALSE, << >>)))
        => AutoClosed(json_str, MissingClosers(json_str, 1, FALSE, << >>), result)

\* C8: with ensure_ascii set, under either setting of skip_json_loads,
\* every character of the returned text has a code point of at most 0x7F.
C8_EnsureAscii ==
    (pc = "done" /\ result.ok /\ options.ensure_ascii)
        => \A i \in 1..Len(result.text) : IsAscii(result.text[i])

\* txt is a string literal, in double or in single quotes, of non-ASCII
\* scalars only.
NonAsciiLiteral(txt) ==
    /\ Len(txt) >= 3
    /\ txt[1] \in { "\"", "'" }
    /\ txt[Len(txt)] = txt[1]
    /\ \A i \in 2..(Len(txt) - 1) : ~IsAscii(txt[i])

\* The JSON string literal of the scalars of the literal txt.
Requoted(txt) == << "\"" >> \o SubSeq(txt, 2, Len(txt) - 1) \o << "\"" >>

\* C9: with ensure_ascii set, the escapes the engine emits for the
\* non-ASCII scalars of a string decode back to exactly those scalars.
C9_EscapeDecodesBack ==
    (pc = "parsed" /\ round = 1 /\ options.ensure_ascii /\ NonAsciiLiteral(json_str))
        => StrictCanon(output) = [ok |-> TRUE, txt |-> Requoted(json_str)]

\* The earliest position at or after p that holds '{' or '[', -1 for none.
EarliestBracket(inp, p) ==
    IF \E i \in p..(Len(inp) - 1) : CharAt(inp, i) \in { "{", "[" }
    THEN CHOOSE i \in p..(Len(inp) - 1) :
            /\ CharAt(inp, i) \in { "{", "[" }
            /\ \A j \in p..(i - 1) : CharAt(inp, j) \notin { "{", "[" }
    ELSE -1

\* parse() is about to call parse_value.
PreambleDone == pc = "running" /\ Len(frames) = 2 /\ Top.fn = "parse_value"

\* C10: when the text remaining after the leading-character skip holds a
\* '{' or a '[', value parsing starts at the earliest position holding
\* either of the two.
C10_JumpToEarliestBracket ==
    (PreambleDone /\ EarliestBracket(input, LeadingSkip(input)) >= 0)
        => pos = EarliestBracket(input, LeadingSkip(input))


\* The places of t where the opening fence starts, and those where a
\* closing fence starts after the opening fence that starts at start.
OpeningFences(t) == { i \in 0..Len(t) : StartsWith(t, i, FenceOpen) }
ClosingFences(t, start) == { i \in (start + 7)..Len(t) : StartsWith(t, i, FenceClose) }

\* t holds the opening fence and a closing fence after it.
Fenced(t) ==
    /\ OpeningFences(t) # {}
    /\ \E start \in OpeningFences(t) :
          /\ \A i \in OpeningFences(t) : start <= i
          /\ ClosingFences(t, start) # {}

\* The text between the first opening fence of t and its last closing
\* fence.
BetweenFences(t) ==
    LET start == CHOOSE i \in OpeningFences(t) : \A j \in OpeningFences(t) : i <= j
        end   == CHOOSE i \in ClosingFences(t, start) : \A j \in ClosingFences(t, start) : j <= i
    IN  SubSeq(t, start + 8, end)

\* C11: whenever the text holds the opening fence and a closing fence
\* after it, the engine works on the text between the two fences and on
\* nothing else.
C11_FenceStripped ==
    (pc \in { "running", "parsed" } /\ Fenced(json_str))
        => input = BetweenFences(json_str)


\* A comment starts at position p of inp.
CommentAt(inp, p) == CharAt(inp, p) = "/" /\ CharAt(inp, p + 1) \in { "/", "*" }

\* The engine is about to dispatch on a character: at the entry of
\* parse_value, or at the head of a loop of parse_object or parse_array.
Dispatching == pc = "running" /\ (Top.fn = "parse_value" \/ Top.at = "loop")

\* C12: comments never reach the output: before a token is dispatched the
\* skipper has consumed every run of whitespace and comments, so the
\* character dispatched on is neither whitespace nor the start of a
\* comment.
C12_SkipsEveryComment ==
    Dispatching =>
        /\ ~IsWhitespace(CharAt(input, SkipPass(input, pos)))
        /\ ~CommentAt(input, SkipPass(input, pos))


\* The end of the run that starts at p: the first position at or after p
\* that holds a structural character (, } ] :), whitespace, or nothing.
RunEnd(inp, p) ==
    CHOOSE q \in p..Len(inp) :
        /\ CharAt(inp, q) = NoChar \/ IsDelimiter(CharAt(inp, q)) \/ IsWhitespace(CharAt(inp, q))
        /\ \A j \in p..(q - 1) :
              ~(IsDelimiter(CharAt(inp, j)) \/ IsWhitespace(CharAt(inp, j)))

\* The lowercase form of the run from p to q.
LowerRun(inp, p, q) == [ i \in 1..(q - p) |-> ToLower(CharAt(inp, p + i - 1)) ]

TrueWord  == << "t", "r", "u", "e" >>
FalseWord == << "f", "a", "l", "s", "e" >>
NullWord  == << "n", "u", "l", "l" >>
NullWords == { NullWord, << "n", "o", "n", "e" >>,
               << "u", "n", "d", "e", "f", "i", "n", "e", "d" >> }

\* What the claim asks of a step that consumes, in value position, the run
\* from p to q of the input: out1 and pos1 are the buffer and the cursor
\* after the step.
LiteralEmitted(p, q, low, out1, pos1) ==
    IF low = TrueWord THEN out1 = output \o TrueWord /\ pos1 = q
    ELSE IF low = FalseWord THEN out1 = output \o FalseWord /\ pos1 = q
    ELSE IF low \in NullWords THEN out1 = output \o NullWord /\ pos1 = q
    ELSE /\ Len(out1) >= Len(output) + 3
         /\ SubSeq(out1, 1, Len(output)) = output
         /\ out1[Len(output) + 1] = "\""
         /\ SubSeq(out1, Len(output) + 2,
                   Len(output) + 1 + Len(EmitChar(CharAt(input, p), options.ensure_ascii)))
               = EmitChar(CharAt(input, p), options.ensure_ascii)
         /\ out1[Len(out1)] = "\""
         /\ pos1 >= q

\* parse_value is about to dispatch on an alphabetic character.
LiteralPending == InValue /\ IsAlphabetic(CharAt(input, SkipPass(input, pos)))

\* C13: in value position a run that starts with an alphabetic character
\* is emitted as true, false or null exactly when its lowercase form is
\* true, false, or one of null / none / undefined; every other run is
\* emitted as a double-quoted string that starts at the run's first
\* character, and the cursor ends after the consumed text.
C13_LiteralOrString ==
    [][ LiteralPending =>
          LiteralEmitted(SkipPass(input, pos),
                         RunEnd(input, SkipPass(input, pos)),
                         LowerRun(input, SkipPass(input, pos), RunEnd(input, SkipPass(input, pos))),
                         output', pos') ]_vars

\* Literals in mixed case and a near miss have been parsed and returned.
C13_Witness ==
    /\ pc = "done" /\ round = 1 /\ options.skip_json_loads
    /\ Len(json_str) > 5 /\ SubSeq(json_str, 1, 5) = << "[", "T", "r", "u", "e" >>
    /\ result = Ok(<< "[" >> \o TrueWord \o << "," >> \o FalseWord \o << "," >> \o NullWord
                   \o << "," >> \o NullWord \o << ",", "\"", "n", "u", "l", "\"", "," >>
                   \o NullWord \o << "]" >>)


\* The two texts of the claim's examples and the results it names.
OnePoint    == << "{", "\"", "n", "\"", ":", " ", "1", ".", "}" >>
OneExponent == << "{", "\"", "n", "\"", ":", " ", "1", "e", "}" >>
OnePointZero    == << "{", "\"", "n", "\"", ":", "1", ".", "0", "}" >>
OneExponentZero == << "{", "\"", "n", "\"", ":", "1", "e", "0", "}" >>

\* parse_value is about to dispatch on a number that parse_number keeps:
\* a digit, or '-' followed by a digit, a point or an exponent marker.
NumberPending ==
    /\ InValue
    /\ \/ IsAsciiDigit(CharAt(input, SkipPass(input, pos)))
       \/ /\ CharAt(input, SkipPass(input, pos)) = "-"
          /\ \/ IsAsciiDigit(CharAt(input, SkipPass(input, pos) + 1))
             \/ CharAt(input, SkipPass(input, pos) + 1) \in { ".", "e", "E" }

\* The token tok, emitted for the input that ends just before position q,
\* is zero-filled: a digit follows every '.', a digit or a sign and a digit
\* follows every 'e', no 'E' is emitted, and a point, marker or sign on
\* which the input's number ends is followed by exactly the '0' supplied.
ZeroFilled(tok, q) ==
    /\ \A i \in 1..Len(tok) :
          /\ tok[i] # "E"
          /\ tok[i] = "." => i < Len(tok) /\ IsAsciiDigit(tok[i + 1])
          /\ tok[i] = "e" =>
                /\ i < Len(tok)
                /\ \/ IsAsciiDigit(tok[i + 1])
                   \/ /\ tok[i + 1] \in { "+", "-" }
                      /\ i + 1 < Len(tok)
                      /\ IsAsciiDigit(tok[i + 2])
    /\ CharAt(input, q - 1) = "." =>
          Len(tok) >= 2 /\ SubSeq(tok, Len(tok) - 1, Len(tok)) = << ".", "0" >>
    /\ CharAt(input, q - 1) \in { "e", "E" } =>
          Len(tok) >= 2 /\ SubSeq(tok, Len(tok) - 1, Len(tok)) = << "e", "0" >>
    /\ (CharAt(input, q - 1) \in { "+", "-" } /\ CharAt(input, q - 2) \in { "e", "E" }) =>
          Len(tok) >= 3
          /\ SubSeq(tok, Len(tok) - 2, Len(tok)) = << "e", CharAt(input, q - 1), "0" >>

\* What the claim asks of a step that emits a number: the buffer out1 after
\* the step is the buffer before it and a zero-filled token.
NumberEmitted(out1, pos1) ==
    /\ Len(out1) > Len(output)
    /\ SubSeq(out1, 1, Len(output)) = output
    /\ ZeroFilled(SubSeq(out1, Len(output) + 1, Len(out1)), pos1)

\* C14 as stated: `{"n": 1.}` repairs to `{"n":1.0}` and `{"n": 1e}` repairs
\* to `{"n":1e0}`.
C14_ExamplesAsStated ==
    Returned =>
        /\ json_str = OnePoint => result = Ok(OnePointZero)
        /\ json_str = OneExponent => result = Ok(OneExponentZero)

\* C14, amended: the number sub-parser appends '0' after a '.' that no
\* digit follows and after an 'e' / 'E' (with optional sign) that no digit
\* follows, and emits the marker as 'e'; `{"n": 1.}` repairs to `{"n":1.0}`,
\* and `{"n": 1e}` repairs to `{"n":1e0}` when skip_json_loads is set and to
\* `{"n":1.0}`, the form the validation re-serialises it to, when it is not.
C14_ZeroFill ==
    [][ /\ NumberPending => NumberEmitted(output', pos')
        /\ (pc' = "done" /\ round' = 1 /\ json_str' = OnePoint)
              => result' = Ok(OnePointZero)
        /\ (pc' = "done" /\ round' = 1 /\ json_str' = OneExponent)
              => result' = Ok(IF options'.skip_json_loads THEN OneExponentZero
                              ELSE OnePointZero) ]_vars

\* The exponent marker with no digit has been zero-filled and returned.
C14_Witness ==
    /\ Returned /\ options.skip_json_loads
    /\ json_str = OneExponent
    /\ result = Ok(OneExponentZero)


\* The text holds nothing but whitespace (it may hold nothing at all).
WhitespaceOnly(t) == \A i \in 1..Len(t) : IsWhitespace(t[i])

\* No parser has been constructed: the parser's fields are as they are
\* before JsonRepairParser::new.
NoParserYet ==
    /\ input = << >> /\ pos = 0 /\ output = << >>
    /\ state_stack = << >> /\ frames = << >> /\ stalls = 0

\* C15: empty and whitespace-only input repair to exactly `{}` under every
\* option setting, and neither the strict parser nor the repair engine
\* runs: the call goes from its start straight to the result, and no
\* parser is constructed.
C15_BlankIsEmptyObject ==
    WhitespaceOnly(json_str) =>
        /\ pc \in { "start", "done" }
        /\ NoParserYet
        /\ pc = "done" => result = Ok(<< "{", "}" >>)

\* A text of several whitespace characters has been repaired, with both
\* options set.
C15_Witness ==
    /\ Returned
    /\ Len(json_str) > 1 /\ WhitespaceOnly(json_str)
    /\ options.skip_json_loads /\ options.ensure_ascii
    /\ result = Ok(<< "{", "}" >>)


\* C16: with skip_json_loads set, repair_json returns Ok whenever the
\* engine returns, and the engine's cursor stays within its range, from 0
\* to the length of the input (the position after the last character).
C16_SkipNeverFails ==
    options.skip_json_loads =>
        /\ pc = "done" => result.ok
        /\ pc \in { "running", "parsed" } => pos <= Len(input)


\* The number of objects and arrays open: the context stack above its
\* Root entry.
Depth == IF state_stack = << >> THEN 0 ELSE Len(state_stack) - 1

\* A safety limit at the scale of the model: one less than the number of
\* containers a text of MaxLen characters can open.
NestingLimit == MaxLen - 1

\* C17: nesting is bounded: the depth of open objects and arrays never
\* exceeds the safety limit in any reachable state (the call fails with an
\* error value before it would).
C17_NestingBounded == Depth <= NestingLimit


\* parse_value is about to dispatch on a '-' that starts no number: neither
\* a digit, nor a point, nor an exponent marker follows it, so parse_number
\* consumes the '-' alone and gives the token up.
DemotionPending ==
    /\ InValue
    /\ CharAt(input, SkipPass(input, pos)) = "-"
    /\ ~IsAsciiDigit(CharAt(input, SkipPass(input, pos) + 1))
    /\ CharAt(input, SkipPass(input, pos) + 1) \notin { ".", "e", "E" }

\* The buffer out1 is the buffer before the step and the double-quoted
\* form of a token that starts with '-'.
OnlyQuotedToken(out1) ==
    /\ Len(out1) >= Len(output) + 3
    /\ SubSeq(out1, 1, Len(output)) = output
    /\ SubSeq(out1, Len(output) + 1, Len(output) + 2) = << "\"", "-" >>
    /\ out1[Len(out1)] = "\""

\* C18: when the number sub-parser gives a token up, what it emitted is
\* rescinded: the output gains only the double-quoted unquoted-string form
\* of the token, and no leftover '-' precedes it.
C18_DemotionRescinds ==
    [][ DemotionPending => OnlyQuotedToken(output') ]_vars


\* C19: JsonContext keeps its cached fields consistent with its stack:
\* after any sequence of set and reset calls from new(), current is the
\* last element of context (None when context is empty) and empty is true
\* exactly when context has no element.
C19_ContextConsistent ==
    /\ current = IF context = << >> THEN None ELSE context[Len(context)]
    /\ empty = (context = << >>)

====
